---- MODULE Spec2Model ----
(***************************************************************************)
(* Rotation planner (src/app.js, revision with storage key v8, lines       *)
(* 1-1003): the rebuild of the schedule in its four modes, with the        *)
(* helpers it reads.  The older revisions kept in the same file (lines     *)
(* 1005-1459 and 1461-1972) have one allocator, buildFairOptimized with    *)
(* enforceTopTwo.                                                          *)
(*                                                                         *)
(* Player ids are integers, 1..n in roster order at first.  A lineup is a  *)
(* sequence of ids; the schedule is a function whose domain is the set of  *)
(* scheduled periods (state.schedule has no key for an unscheduled one).   *)
(* Math.random is a generator with RandMod states stepped on every draw.   *)
(***************************************************************************)
EXTENDS Integers, Sequences, FiniteSets, TLC

PERIODS == 8
ON_COURT == 4
TRIALS == 30

\* Bounds of the model.
MaxPlayers == 9
MaxInactive == 2
MaxSeed == 1
RandMod == 16
MaxLivePool == 6
MaxOps == 2
MaxImport == 2

VARIABLES players, schedule, locked, currentPeriod, mode, topTwoCoverage,
          avoidStreaks, autoRebuild, status, rng, pc, k, ops, timers

vars == <<players, schedule, locked, currentPeriod, mode, topTwoCoverage,
          avoidStreaks, autoRebuild, status, rng, pc, k, ops, timers>>

\* The clear timers of setStatus that have not fired yet, oldest first: each
\* is the number of handler runs begun since the run that scheduled it (all
\* have the same delay, so they fire in the order they were scheduled).
setStatusTimer(t) == Append(t, 0)
taskBegins(t) == [i \in DOMAIN t |-> t[i] + 1]

PlayerIds == 1..(MaxPlayers + 1)
Periods == 1..PERIODS
Modes == {"sliding_fixed", "sliding_adaptive", "true_random_fair", "fair_optimized"}

----------------------------------------------------------------------------
\* Sequence helpers (Array.prototype.map / includes / Math.min / Math.max).

Ids(ps) == [i \in 1..Len(ps) |-> ps[i].id] \o <<>>
Range(s) == {s[i] : i \in DOMAIN s}
Includes(s, x) == \E i \in DOMAIN s : s[i] = x
MinOf(S) == CHOOSE x \in S : \A y \in S : x <= y
MaxOf(S) == CHOOSE x \in S : \A y \in S : x >= y
Slice(s, n) == SubSeq(s, 1, IF Len(s) < n THEN Len(s) ELSE n)

----------------------------------------------------------------------------
\* Logic helpers.

\* Mutant of getActivePool: the out flag is not looked at.
getActivePoolIgnoringOut == SelectSeq(players, LAMBDA p : p.available)

getActivePool == SelectSeq(players, LAMBDA p : p.available /\ ~p.out)

\* Math.random() returns rng / RandMod and steps the generator.
NextRand(x) == (5 * x + 3) % RandMod

\* Fisher-Yates: for i = length-1 down to 1, j = floor(random * (i + 1)), swap.
\* Indices here are 1-based, so i runs from Len(a) down to 2.
RECURSIVE shuffleLoop(_, _, _)
shuffleLoop(a, i, x) ==
  IF i <= 1 THEN [a |-> a, x |-> x]
  ELSE LET j == ((x * i) \div RandMod) + 1
       IN shuffleLoop([a EXCEPT ![i] = a[j], ![j] = a[i]], i - 1, NextRand(x))

shuffle(arr, x) == shuffleLoop(arr, Len(arr), x)

\* Mutant of getPlayedCounts: the loop runs to upTo inclusive.
getPlayedCountsInclusive(sched, upTo) ==
  LET slots == UNION {{<<q, i>> : i \in DOMAIN sched[q]} :
                        q \in (DOMAIN sched) \cap (1..upTo)}
  IN [id \in PlayerIds |->
        Cardinality({ki \in slots : sched[ki[1]][ki[2]] = id})] \o <<>>

\* counts[pid] = number of occurrences of pid in the lineups of periods < upTo.
\* (Ids are 1..n, so the table is a sequence; "\o <<>>" leaves it unchanged and
\* makes TLC tabulate it once.)
getPlayedCounts(sched, upTo) ==
  LET slots == UNION {{<<q, i>> : i \in DOMAIN sched[q]} :
                        q \in (DOMAIN sched) \cap (1..(upTo - 1))}
  IN [id \in PlayerIds |->
        Cardinality({ki \in slots : sched[ki[1]][ki[2]] = id})] \o <<>>

\* Mutant of streakLoop: an unscheduled period is skipped, not counted as a gap.
RECURSIVE streakLoopSkipsUnscheduled(_, _, _, _)
streakLoopSkipsUnscheduled(sched, q, upTo, streak) ==
  IF q >= upTo THEN streak
  ELSE IF q \notin DOMAIN sched THEN streakLoopSkipsUnscheduled(sched, q + 1, upTo, streak)
  ELSE streakLoopSkipsUnscheduled(sched, q + 1, upTo,
                                  [id \in DOMAIN streak |->
                                     IF Includes(sched[q], id) THEN streak[id] + 1 ELSE 0])

\* The loop over k = 1 .. upTo-1: a period with the player adds 1, any other
\* period (also an unscheduled one) resets to 0.
RECURSIVE streakLoop(_, _, _, _)
streakLoop(sched, q, upTo, streak) ==
  IF q >= upTo THEN streak
  ELSE LET lineup == IF q \in DOMAIN sched THEN sched[q] ELSE <<>>
       IN streakLoop(sched, q + 1, upTo,
                     [id \in DOMAIN streak |->
                        IF Includes(lineup, id) THEN streak[id] + 1 ELSE 0])

getStreakCounts(sched, upTo) ==
  streakLoop(sched, 1, upTo, [id \in Range(Ids(players)) |-> 0])

StreakOf(streak, id) == IF id \in DOMAIN streak THEN streak[id] ELSE 0

RECURSIVE SumSeq(_)
SumSeq(s) == IF s = <<>> THEN 0 ELSE Head(s) + SumSeq(Tail(s))

calculateStreakPenalty(lineup, streakBefore) ==
  IF ~avoidStreaks THEN 0
  ELSE SumSeq([i \in DOMAIN lineup |->
                 LET s == StreakOf(streakBefore, lineup[i])
                 IN IF s >= 2 THEN s * 10 ELSE IF s = 1 THEN 1 ELSE 0])

calculateTopPlayerPenalty(lineup, pool) ==
  IF ~topTwoCoverage THEN 0
  ELSE LET topPlayers == Ids(SelectSeq(pool, LAMBDA p : p.top))
           topCount == Cardinality({i \in DOMAIN lineup : Includes(topPlayers, lineup[i])})
       IN IF Len(topPlayers) = 0 THEN 0
          ELSE IF Len(topPlayers) = 1
               THEN (IF Includes(lineup, topPlayers[1]) THEN 0 ELSE 100)
          ELSE IF topCount = 1 THEN 0
          ELSE IF topCount = 0 THEN 50
          ELSE IF topCount = 2 THEN 5
          ELSE topCount * 10

----------------------------------------------------------------------------
\* Array.prototype.sort with the comparator of selectFairLineup: fewer periods
\* played first, then top players first, then Math.random() - 0.5.  With a
\* random comparator the resulting order is whatever the engine's algorithm
\* makes of the draws; this is the insertion sort engines use on short arrays:
\* the element moves left while comparefn(tmp, element) > 0.
\* Mutant of compareFair: top status is compared before the periods played.
compareFairTopFirst(a, b, played, tops, x) ==
  LET aTop == IF a \in tops THEN 1 ELSE 0
      bTop == IF b \in tops THEN 1 ELSE 0
  IN IF aTop # bTop THEN [order |-> bTop - aTop, x |-> x]
     ELSE IF played[a] # played[b] THEN [order |-> played[a] - played[b], x |-> x]
     ELSE [order |-> 2 * x - RandMod, x |-> NextRand(x)]

compareFair(a, b, played, tops, x) ==
  IF played[a] # played[b] THEN [order |-> played[a] - played[b], x |-> x]
  ELSE LET aTop == IF a \in tops THEN 1 ELSE 0
           bTop == IF b \in tops THEN 1 ELSE 0
       IN IF aTop # bTop THEN [order |-> bTop - aTop, x |-> x]
          ELSE [order |-> 2 * x - RandMod, x |-> NextRand(x)]

RECURSIVE insertLoop(_, _, _, _, _, _)
insertLoop(a, j, element, played, tops, x) ==
  IF j < 1 THEN [a |-> [a EXCEPT ![1] = element], x |-> x]
  ELSE LET c == compareFair(a[j], element, played, tops, x)
       IN IF c.order > 0
          THEN insertLoop([a EXCEPT ![j + 1] = a[j]], j - 1, element, played, tops, c.x)
          ELSE [a |-> [a EXCEPT ![j + 1] = element], x |-> c.x]

RECURSIVE sortLoop(_, _, _, _, _)
sortLoop(a, i, played, tops, x) ==
  IF i > Len(a) THEN [a |-> a, x |-> x]
  ELSE LET r == insertLoop(a, i - 1, a[i], played, tops, x)
       IN sortLoop(r.a, i + 1, played, tops, r.x)

sortFair(arr, played, tops, x) == sortLoop(arr, 2, played, tops, x)

Score(lineup, pool, streak) ==
  calculateStreakPenalty(lineup, streak) + calculateTopPlayerPenalty(lineup, pool)

\* One iteration of the loop "for (let i = 0; i < 30; i++)" of selectFairLineup
\* on the loop's variables: bestLineup, minScore, the generator, and whether the
\* loop has left through its break.
trialStep(st, candidates, pool, streak) ==
  IF st.broke THEN st
  ELSE LET sh == shuffle(candidates, st.x)
           testLineup == Slice(sh.a, ON_COURT)
           score == Score(testLineup, pool, streak)
       IN IF score < st.minScore
          THEN [lineup |-> testLineup, minScore |-> score, x |-> sh.x, broke |-> score = 0]
          ELSE [st EXCEPT !.x = sh.x]

\* n iterations in a row (split in halves to keep the evaluation shallow).
RECURSIVE trialLoop(_, _, _, _, _)
trialLoop(n, st, candidates, pool, streak) ==
  IF n = 0 THEN st
  ELSE IF n = 1 THEN trialStep(st, candidates, pool, streak)
  ELSE LET half == trialLoop(n \div 2, st, candidates, pool, streak)
       IN IF half.broke THEN half
          ELSE trialLoop(n - (n \div 2), half, candidates, pool, streak)

\* Mutant of selectFairLineup: the pool is not sorted by the periods played.
selectFairLineupUnsorted(pool, played, streak, x) ==
  [lineup |-> Slice(Ids(pool), ON_COURT), x |-> x]

selectFairLineup(pool, played, streak, x) ==
  LET poolIds == Ids(pool)
      topPlayerIds == Range(Ids(SelectSeq(pool, LAMBDA p : p.top)))
      s == sortFair(poolIds, played, topPlayerIds, x)
      sorted == s.a
      lineup == Slice(sorted, ON_COURT)
      lineupPlayed == {played[lineup[i]] : i \in DOMAIN lineup}
      minInLineup == MinOf(lineupPlayed)
      maxInLineup == MaxOf(lineupPlayed)
      candidates == SelectSeq(sorted, LAMBDA id : played[id] = minInLineup)
  IN IF maxInLineup = minInLineup /\ Len(candidates) > ON_COURT
     THEN LET st == trialLoop(TRIALS,
                              [lineup |-> lineup, minScore |-> Score(lineup, pool, streak),
                               x |-> s.x, broke |-> FALSE],
                              candidates, pool, streak)
          IN [lineup |-> st.lineup, x |-> st.x]
     ELSE [lineup |-> lineup, x |-> s.x]

----------------------------------------------------------------------------
\* Mutant of rotationPatterns: the last row of every table repeats its first.
rotationPatternsLastRowFirst ==
  [n \in 5..8 |->
     CASE n = 8 -> << <<0, 1, 2, 3>>, <<4, 5, 6, 7>>, <<1, 2, 3, 4>>, <<5, 6, 7, 0>>,
                      <<2, 3, 4, 5>>, <<6, 7, 0, 1>>, <<2, 3, 4, 5>>, <<0, 1, 2, 3>> >>
       [] n = 7 -> << <<0, 1, 2, 3>>, <<4, 5, 6, 0>>, <<1, 2, 3, 4>>, <<5, 6, 0, 1>>,
                      <<2, 3, 4, 5>>, <<6, 0, 1, 2>>, <<3, 4, 5, 6>>, <<0, 1, 2, 3>> >>
       [] n = 6 -> << <<0, 1, 2, 3>>, <<4, 5, 0, 1>>, <<2, 3, 4, 5>>, <<0, 1, 2, 3>>,
                      <<4, 5, 0, 1>>, <<2, 3, 4, 5>>, <<0, 1, 2, 3>>, <<0, 1, 2, 3>> >>
       [] n = 5 -> << <<0, 1, 2, 3>>, <<4, 0, 1, 2>>, <<3, 4, 0, 1>>, <<2, 3, 4, 0>>,
                      <<1, 2, 3, 4>>, <<0, 1, 2, 3>>, <<4, 0, 1, 2>>, <<0, 1, 2, 3>> >>]

\* rotationPatterns of buildSlidingFixed and buildSlidingAdaptive (the two
\* tables are equal): positions are 0-based indices into the pool.
rotationPatterns ==
  [n \in 5..8 |->
     CASE n = 8 -> << <<0, 1, 2, 3>>, <<4, 5, 6, 7>>, <<1, 2, 3, 4>>, <<5, 6, 7, 0>>,
                      <<2, 3, 4, 5>>, <<6, 7, 0, 1>>, <<2, 3, 4, 5>>, <<6, 7, 0, 1>> >>
       [] n = 7 -> << <<0, 1, 2, 3>>, <<4, 5, 6, 0>>, <<1, 2, 3, 4>>, <<5, 6, 0, 1>>,
                      <<2, 3, 4, 5>>, <<6, 0, 1, 2>>, <<3, 4, 5, 6>>, <<0, 1, 2, 3>> >>
       [] n = 6 -> << <<0, 1, 2, 3>>, <<4, 5, 0, 1>>, <<2, 3, 4, 5>>, <<0, 1, 2, 3>>,
                      <<4, 5, 0, 1>>, <<2, 3, 4, 5>>, <<0, 1, 2, 3>>, <<4, 5, 0, 1>> >>
       [] n = 5 -> << <<0, 1, 2, 3>>, <<4, 0, 1, 2>>, <<3, 4, 0, 1>>, <<2, 3, 4, 0>>,
                      <<1, 2, 3, 4>>, <<0, 1, 2, 3>>, <<4, 0, 1, 2>>, <<3, 4, 0, 1>> >>]

HasPattern(n) == n \in DOMAIN rotationPatterns

\* Mutant of slidingFixedLineup: every period uses the first row of the table.
slidingFixedLineupFirstRow(pool, q) ==
  LET poolIds == Ids(pool)
      positions == rotationPatterns[Len(pool)][1]
  IN [i \in DOMAIN positions |-> poolIds[positions[i] + 1]]

\* The loop body of buildSlidingFixed: positions.map(pos => poolIds[pos]).
slidingFixedLineup(pool, q) ==
  LET poolIds == Ids(pool)
      positions == rotationPatterns[Len(pool)][q]
  IN [i \in DOMAIN positions |-> poolIds[positions[i] + 1]]

\* Mutant of optimizedIds: top players take the least used positions.
optimizedIdsTopsLast(pool) ==
  LET n == Len(pool)
      pattern == rotationPatterns[n]
      positionCounts == [pos \in 0..(n - 1) |->
                           Cardinality({qi \in (DOMAIN pattern) \X (1..ON_COURT) :
                                          pattern[qi[1]][qi[2]] = pos})]
      rank(pos) == 1 + Cardinality({o \in 0..(n - 1) :
                                      \/ positionCounts[o] < positionCounts[pos]
                                      \/ positionCounts[o] = positionCounts[pos] /\ o < pos})
      topPlayers == SelectSeq(pool, LAMBDA p : p.top)
      nonTopPlayers == SelectSeq(pool, LAMBDA p : ~p.top)
  IN [i \in 1..n |->
        LET r == rank(i - 1)
        IN IF r <= Len(topPlayers) THEN topPlayers[r].id
           ELSE nonTopPlayers[r - Len(topPlayers)].id]

\* buildSlidingAdaptive: positions sorted by how often the pattern uses them
\* (descending, stable), top players take the most used positions.
optimizedIds(pool) ==
  LET n == Len(pool)
      pattern == rotationPatterns[n]
      positionCounts == [pos \in 0..(n - 1) |->
                           Cardinality({qi \in (DOMAIN pattern) \X (1..ON_COURT) :
                                          pattern[qi[1]][qi[2]] = pos})]
      rank(pos) == 1 + Cardinality({o \in 0..(n - 1) :
                                      \/ positionCounts[o] > positionCounts[pos]
                                      \/ positionCounts[o] = positionCounts[pos] /\ o < pos})
      topPlayers == SelectSeq(pool, LAMBDA p : p.top)
      nonTopPlayers == SelectSeq(pool, LAMBDA p : ~p.top)
  IN [i \in 1..n |->
        LET r == rank(i - 1)
        IN IF r <= Len(topPlayers) THEN topPlayers[r].id
           ELSE nonTopPlayers[r - Len(topPlayers)].id]

slidingAdaptiveLineup(pool, q) ==
  LET ids == optimizedIds(pool)
      positions == rotationPatterns[Len(pool)][q]
  IN [i \in DOMAIN positions |-> ids[positions[i] + 1]]

\* Mutant of trueRandomFairLineup: the draw is from the whole pool.
trueRandomFairLineupAnyone(pool, played, x) ==
  LET sh == shuffle(Ids(pool), x)
  IN [lineup |-> Slice(sh.a, ON_COURT), x |-> sh.x]

\* The loop body of buildTrueRandomFair.
trueRandomFairLineup(pool, played, x) ==
  LET poolIds == Ids(pool)
      minPlayed == MinOf({played[poolIds[i]] : i \in DOMAIN poolIds})
      mustPlay == SelectSeq(poolIds, LAMBDA id : played[id] = minPlayed)
      nextTier == SelectSeq(poolIds, LAMBDA id : played[id] = minPlayed + 1)
      needed == ON_COURT - Len(mustPlay)
  IN IF Len(mustPlay) >= ON_COURT
     THEN LET sh == shuffle(mustPlay, x)
          IN [lineup |-> Slice(sh.a, ON_COURT), x |-> sh.x]
     ELSE LET sh == shuffle(nextTier, x)
          IN [lineup |-> mustPlay \o Slice(sh.a, needed), x |-> sh.x]

\* Mutant of verifyFairness: any difference between the counts is flagged.
verifyFairnessAnyDifference(sched, st) ==
  LET pool == getActivePool
      counts == getPlayedCounts(sched, PERIODS + 1)
      played == {counts[pool[i].id] : i \in DOMAIN pool}
  IN IF Len(pool) = 0 THEN st
     ELSE IF MaxOf(played) - MinOf(played) > 0 THEN "fairness_issue"
     ELSE st

\* Mutant of verifyFairness: the counts of the top players are not examined.
verifyFairnessWithoutTopCheck(sched, st) ==
  LET pool == getActivePool
      counts == getPlayedCounts(sched, PERIODS + 1)
      played == {counts[pool[i].id] : i \in DOMAIN pool}
  IN IF Len(pool) = 0 THEN st
     ELSE IF MaxOf(played) - MinOf(played) > 1 THEN "fairness_issue"
     ELSE st

\* verifyFairness: the status it sets, or the current one when it sets none.
verifyFairness(sched, st) ==
  LET pool == getActivePool
      counts == getPlayedCounts(sched, PERIODS + 1)
      played == {counts[pool[i].id] : i \in DOMAIN pool}
      topPlayers == SelectSeq(pool, LAMBDA p : p.top)
  IN IF Len(pool) = 0 THEN st
     ELSE IF MaxOf(played) - MinOf(played) > 1 THEN "fairness_issue"
     ELSE IF /\ MaxOf(played) > MinOf(played)
             /\ Len(topPlayers) > 0
             /\ MinOf({counts[topPlayers[i].id] : i \in DOMAIN topPlayers}) < MaxOf(played)
          THEN "top_issue"
     ELSE st

----------------------------------------------------------------------------
\* const start = Math.max(1, state.currentPeriod)
Start == IF currentPeriod > 1 THEN currentPeriod ELSE 1

\* The builder that runs the generation loop: the sliding modes fall back to
\* buildFairOptimized when the pool has no rotation pattern.
Builder ==
  IF mode \in {"sliding_fixed", "sliding_adaptive"}
  THEN (IF HasPattern(Len(getActivePool)) THEN mode ELSE "fair_optimized")
  ELSE IF mode = "true_random_fair" THEN mode
  ELSE "fair_optimized"

----------------------------------------------------------------------------
\* The states a rebuild starts from.  A setting the chosen builder never reads
\* (avoidStreaks outside buildFairOptimized, the generator in the sliding
\* builders) has one value.

\* A roster of n players whose first d players are inactive: the first,
\* third, ... are marked out, the others not available.
Roster(n, tops, d) ==
  [i \in 1..n |-> [id |-> i,
                   top |-> i \in tops,
                   available |-> ~(i <= d /\ i % 2 = 0),
                   out |-> (i <= d /\ i % 2 = 1)]]

\* At most two players are marked top.
TopChoices == {{}, {1, 2}, {5}}

\* Schedules left by earlier rebuilds: none; the one built while exactly the
\* players 1..4 were active; the sliding-fixed one of the players 1..5.
PriorSchedules ==
  { <<>>,
    [q \in Periods |-> <<1, 2, 3, 4>>],
    [q \in Periods |-> [i \in 1..ON_COURT |-> rotationPatterns[5][q][i] + 1]] }

\* The cursor and the lock set the rebuild starts with.
Cursors ==
  { [currentPeriod |-> 1, locked |-> {}],
    [currentPeriod |-> 1, locked |-> {3, 6}],
    [currentPeriod |-> 1, locked |-> {1, 2}],
    [currentPeriod |-> 3, locked |-> {}],
    [currentPeriod |-> 6, locked |-> {6, 7}] }

Init ==
  /\ \E n \in (ON_COURT + 1)..MaxPlayers, d \in 0..MaxInactive, tops \in TopChoices :
       players = Roster(n, tops, d)
  /\ schedule \in PriorSchedules
  /\ \E c \in Cursors : currentPeriod = c.currentPeriod /\ locked = c.locked
  /\ mode \in Modes
  /\ topTwoCoverage \in BOOLEAN
  /\ avoidStreaks \in (IF Builder = "fair_optimized" THEN BOOLEAN ELSE {FALSE})
  /\ status = ""
  /\ rng \in (IF Builder \in {"sliding_fixed", "sliding_adaptive"} THEN {0} ELSE 0..MaxSeed)
  /\ pc = "idle"
  /\ k = 0
  /\ autoRebuild = FALSE
  /\ ops = 0
  /\ timers = <<>>

----------------------------------------------------------------------------
\* rebuildFromCurrent and the builder it calls, one step at a time.

\* Mutant of RebuildClear: locked periods are deleted too.
RebuildClearLocked ==
  /\ pc = "idle"
  /\ schedule' = [q \in (DOMAIN schedule) \ (Start..PERIODS) |-> schedule[q]]
  /\ pc' = "build"
  /\ UNCHANGED <<autoRebuild, ops, players, locked, currentPeriod, mode, topTwoCoverage, avoidStreaks,
                 status, rng, k>>
  /\ timers' = taskBegins(timers)

\* Mutant of RebuildClear: the loop starts at period 1, not at start.
RebuildClearFromOne ==
  /\ pc = "idle"
  /\ schedule' = [q \in (DOMAIN schedule) \ {r \in 1..PERIODS : r \notin locked}
                    |-> schedule[q]]
  /\ pc' = "build"
  /\ UNCHANGED <<autoRebuild, ops, players, locked, currentPeriod, mode, topTwoCoverage, avoidStreaks,
                 status, rng, k>>
  /\ timers' = taskBegins(timers)

\* Mutant of RebuildClear: nothing is deleted.
RebuildClearKeepsAll ==
  /\ pc = "idle"
  /\ pc' = "build"
  /\ UNCHANGED <<autoRebuild, ops, players, schedule, locked, currentPeriod, mode, topTwoCoverage,
                 avoidStreaks, status, rng, k>>
  /\ timers' = taskBegins(timers)

\* rebuildFromCurrent, first loop: delete every unlocked period from start on.
RebuildClear ==
  /\ pc = "idle"
  /\ schedule' = [q \in (DOMAIN schedule) \ {r \in Start..PERIODS : r \notin locked}
                    |-> schedule[q]]
  /\ pc' = "build"
  /\ UNCHANGED <<autoRebuild, ops, players, locked, currentPeriod, mode, topTwoCoverage, avoidStreaks,
                 status, rng, k>>
  /\ timers' = taskBegins(timers)

\* Mutant of BuildAbort: the short pool is stored like a whole pool.
BuildAbortStoresPool ==
  /\ pc = "build"
  /\ Len(getActivePool) < ON_COURT
  /\ schedule' = [q \in (DOMAIN schedule) \cup {r \in Start..PERIODS : r \notin locked}
                    |-> IF q >= Start /\ q \notin locked
                        THEN Ids(getActivePool) ELSE schedule[q]]
  /\ status' = "need_players"
  /\ pc' = "finish"
  /\ UNCHANGED <<autoRebuild, ops, players, locked, currentPeriod, mode, topTwoCoverage,
                 avoidStreaks, rng, k>>
  /\ timers' = setStatusTimer(timers)

\* Every builder: fewer than ON_COURT active players, set the status and return.
BuildAbort ==
  /\ pc = "build"
  /\ Len(getActivePool) < ON_COURT
  /\ status' = "need_players"
  /\ pc' = "finish"
  /\ UNCHANGED <<autoRebuild, ops, players, schedule, locked, currentPeriod, mode, topTwoCoverage,
                 avoidStreaks, rng, k>>
  /\ timers' = setStatusTimer(timers)

\* Mutant of BuildWholePool: the loop starts one period late.
BuildWholePoolLate ==
  /\ pc = "build"
  /\ Len(getActivePool) = ON_COURT
  /\ schedule' = [q \in (DOMAIN schedule) \cup {r \in (Start + 1)..PERIODS : r \notin locked}
                    |-> IF q > Start /\ q \notin locked
                        THEN Ids(getActivePool) ELSE schedule[q]]
  /\ pc' = "finish"
  /\ UNCHANGED <<autoRebuild, ops, players, locked, currentPeriod, mode, topTwoCoverage, avoidStreaks,
                 status, rng, k>>
  /\ UNCHANGED timers

\* Every builder: exactly ON_COURT active players, every unlocked period from
\* start on gets the whole pool, and the builder returns.
BuildWholePool ==
  /\ pc = "build"
  /\ Len(getActivePool) = ON_COURT
  /\ schedule' = [q \in (DOMAIN schedule) \cup {r \in Start..PERIODS : r \notin locked}
                    |-> IF q >= Start /\ q \notin locked
                        THEN Ids(getActivePool) ELSE schedule[q]]
  /\ pc' = "finish"
  /\ UNCHANGED <<autoRebuild, ops, players, locked, currentPeriod, mode, topTwoCoverage, avoidStreaks,
                 status, rng, k>>
  /\ UNCHANGED timers

\* Mutant of BuildLoop: the loop starts one period after start.
BuildLoopLate ==
  /\ pc = "build"
  /\ Len(getActivePool) > ON_COURT
  /\ k' = Start + 1
  /\ pc' = "gen"
  /\ UNCHANGED <<autoRebuild, ops, players, schedule, locked, currentPeriod, mode, topTwoCoverage,
                 avoidStreaks, status, rng>>
  /\ UNCHANGED timers

\* Every builder: more than ON_COURT active players, enter the loop at start.
BuildLoop ==
  /\ pc = "build"
  /\ Len(getActivePool) > ON_COURT
  /\ k' = Start
  /\ pc' = "gen"
  /\ UNCHANGED <<autoRebuild, ops, players, schedule, locked, currentPeriod, mode, topTwoCoverage,
                 avoidStreaks, status, rng>>
  /\ UNCHANGED timers

\* The lineup a builder stores for period q, with the generator after it, when
\* the schedule is sched and the tallies are taken over the periods before upTo.
GenerateOn(sched, q, upTo) ==
  LET pool == getActivePool
      played == getPlayedCounts(sched, upTo)
  IN CASE Builder = "sliding_fixed" ->
            [lineup |-> slidingFixedLineup(pool, q), x |-> rng]
       [] Builder = "sliding_adaptive" ->
            [lineup |-> slidingAdaptiveLineup(pool, q), x |-> rng]
       [] Builder = "true_random_fair" ->
            trueRandomFairLineup(pool, played, rng)
       [] OTHER ->
            selectFairLineup(pool, played, getStreakCounts(sched, upTo), rng)

\* Mutant of Generate: the tallies are taken over the whole horizon.
GenerateLookahead(q) == GenerateOn(schedule, q, PERIODS + 1)

\* The loop body of the builders: getPlayedCounts(k), getStreakCounts(k).
Generate(q) == GenerateOn(schedule, q, q)

\* Mutant of GenStep: the loop variable is not incremented after a locked period.
GenStepStaysOnLocked ==
  /\ pc = "gen"
  /\ k <= PERIODS
  /\ IF k \in locked
     THEN UNCHANGED <<schedule, rng, k>>
     ELSE LET g == Generate(k)
          IN /\ schedule' = [q \in (DOMAIN schedule) \cup {k} |->
                               IF q = k THEN g.lineup ELSE schedule[q]]
             /\ rng' = g.x
             /\ k' = k + 1
  /\ UNCHANGED <<autoRebuild, ops, players, locked, currentPeriod, mode, topTwoCoverage, avoidStreaks,
                 status, pc>>
  /\ UNCHANGED timers

\* One iteration of the builder's loop: a locked period is skipped.
GenStep ==
  /\ pc = "gen"
  /\ k <= PERIODS
  /\ IF k \in locked
     THEN UNCHANGED <<schedule, rng>>
     ELSE LET g == Generate(k)
          IN /\ schedule' = [q \in (DOMAIN schedule) \cup {k} |->
                               IF q = k THEN g.lineup ELSE schedule[q]]
             /\ rng' = g.x
  /\ k' = k + 1
  /\ UNCHANGED <<autoRebuild, ops, players, locked, currentPeriod, mode, topTwoCoverage, avoidStreaks,
                 status, pc>>
  /\ UNCHANGED timers

\* Mutant of Verify: a flagged schedule makes the rebuild start again.
VerifyAndRetry ==
  /\ pc = "gen"
  /\ k > PERIODS
  /\ status' = verifyFairness(schedule, status)
  /\ pc' = IF verifyFairness(schedule, "") = "" THEN "finish" ELSE "idle"
  /\ UNCHANGED <<autoRebuild, ops, players, schedule, locked, currentPeriod, mode, topTwoCoverage,
                 avoidStreaks, rng, k>>
  /\ timers' = IF verifyFairness(schedule, "") = "" THEN timers ELSE setStatusTimer(timers)

\* After the loop the builder calls verifyFairness and returns.
Verify ==
  /\ pc = "gen"
  /\ k > PERIODS
  /\ status' = verifyFairness(schedule, status)
  /\ pc' = "finish"
  /\ UNCHANGED <<autoRebuild, ops, players, schedule, locked, currentPeriod, mode, topTwoCoverage,
                 avoidStreaks, rng, k>>
  /\ timers' = IF verifyFairness(schedule, "") = "" THEN timers ELSE setStatusTimer(timers)

\* rebuildFromCurrent, after the builder: saveState, renderAll and
\* setStatus(`Rebuilt from Period ${start}. ...`).
RebuildFinish ==
  /\ pc = "finish"
  /\ status' = "rebuilt"
  /\ pc' = "done"
  /\ UNCHANGED <<autoRebuild, ops, players, schedule, locked, currentPeriod, mode, topTwoCoverage,
                 avoidStreaks, rng, k>>
  /\ timers' = setStatusTimer(timers)

Next ==
  \/ RebuildClear
  \/ BuildAbort
  \/ BuildWholePool
  \/ BuildLoop
  \/ GenStep
  \/ Verify
  \/ RebuildFinish

Spec == Init /\ [][Next]_vars

\* The rebuilds from an empty schedule over at most MaxLivePool active players,
\* of the builders whose loop body draws from the tallies alone or from the
\* pattern table.
InitEmpty ==
  /\ Init
  /\ schedule = <<>>
  /\ topTwoCoverage
  /\ rng = 0
  /\ \A i \in DOMAIN players : ~players[i].top
  /\ Builder # "fair_optimized"
  /\ Len(getActivePool) <= MaxLivePool

\* rebuildFromCurrent is one synchronous call: each of its steps is taken.
FairSpec == InitEmpty /\ [][Next]_vars /\ WF_vars(Next)

\* The rebuilds of the two builders that read only the played counts, without
\* top players: the schedules the bookkeeping helpers are checked on.
InitTallies ==
  /\ Init
  /\ mode \in {"sliding_fixed", "true_random_fair"}
  /\ \A i \in DOMAIN players : ~players[i].top
  /\ ~topTwoCoverage

SpecTallies == InitTallies /\ [][Next]_vars

----------------------------------------------------------------------------
\* The event handlers of the page.  A handler runs when no rebuild is running;
\* ops counts the handlers run, up to MaxOps.

Quiet == pc \in {"idle", "done"} /\ ops < MaxOps

\* The first loop of rebuildFromCurrent on the schedule a handler leaves.
ClearedFrom(sched) ==
  [q \in (DOMAIN sched) \ {r \in Start..PERIODS : r \notin locked} |-> sched[q]]

\* Mutant of RebuildOrRender: the handler renders and never rebuilds.
RebuildOrRenderOnlyRenders(sched, auto) ==
  schedule' = sched /\ pc' = pc

\* 'if (state.autoRebuild) rebuildFromCurrent(); else renderAll();' at the end
\* of a handler that leaves the schedule sched: the rebuild goes on in the
\* builder.
RebuildOrRender(sched, auto) ==
  IF auto
  THEN schedule' = ClearedFrom(sched) /\ pc' = "build"
  ELSE schedule' = sched /\ pc' = pc

\* rebuildBtn.onclick after an earlier rebuild.
RebuildClick ==
  /\ Quiet
  /\ pc = "done"
  /\ schedule' = ClearedFrom(schedule)
  /\ pc' = "build"
  /\ ops' = ops + 1
  /\ UNCHANGED <<players, locked, currentPeriod, mode, topTwoCoverage, avoidStreaks,
                 autoRebuild, status, rng, k>>
  /\ timers' = taskBegins(timers)

\* sel.onchange of the period select.
SetCurrentPeriod ==
  /\ Quiet
  /\ \E p \in Periods \ {currentPeriod} : currentPeriod' = p
  /\ ops' = ops + 1
  /\ UNCHANGED <<players, schedule, locked, mode, topTwoCoverage, avoidStreaks,
                 autoRebuild, status, rng, pc, k>>
  /\ timers' = taskBegins(timers)

\* el.onchange of the mode select.
SetMode ==
  /\ Quiet
  /\ \E m \in Modes \ {mode} : mode' = m
  /\ ops' = ops + 1
  /\ UNCHANGED <<players, schedule, locked, currentPeriod, topTwoCoverage, avoidStreaks,
                 autoRebuild, status, rng, pc, k>>
  /\ timers' = taskBegins(timers)

\* el.onclick of the three checkboxes of the settings.
ToggleTopTwoCoverage ==
  /\ Quiet
  /\ topTwoCoverage' = ~topTwoCoverage
  /\ RebuildOrRender(schedule, autoRebuild)
  /\ ops' = ops + 1
  /\ UNCHANGED <<players, locked, currentPeriod, mode, avoidStreaks, autoRebuild,
                 status, rng, k>>
  /\ timers' = taskBegins(timers)

ToggleAvoidStreaks ==
  /\ Quiet
  /\ avoidStreaks' = ~avoidStreaks
  /\ RebuildOrRender(schedule, autoRebuild)
  /\ ops' = ops + 1
  /\ UNCHANGED <<players, locked, currentPeriod, mode, topTwoCoverage, autoRebuild,
                 status, rng, k>>
  /\ timers' = taskBegins(timers)

ToggleAutoRebuild ==
  /\ Quiet
  /\ autoRebuild' = ~autoRebuild
  /\ RebuildOrRender(schedule, ~autoRebuild)
  /\ ops' = ops + 1
  /\ UNCHANGED <<players, locked, currentPeriod, mode, topTwoCoverage, avoidStreaks,
                 status, rng, k>>
  /\ timers' = taskBegins(timers)

\* nameInput.onchange: the name of a player is no part of the state modelled.
RenamePlayer ==
  /\ Quiet
  /\ players # <<>>
  /\ ops' = ops + 1
  /\ UNCHANGED <<players, schedule, locked, currentPeriod, mode, topTwoCoverage,
                 avoidStreaks, autoRebuild, status, rng, pc, k>>
  /\ timers' = taskBegins(timers)

\* Mutant of TogglePill: a third top player is accepted.
TogglePillWithoutLimit ==
  /\ Quiet
  /\ \E i \in DOMAIN players, key \in {"top", "available", "out"} :
       /\ players' = [players EXCEPT ![i][key] = ~@]
       /\ RebuildOrRender(schedule, autoRebuild)
       /\ UNCHANGED status
  /\ ops' = ops + 1
  /\ UNCHANGED <<locked, currentPeriod, mode, topTwoCoverage, avoidStreaks,
                 autoRebuild, rng, k>>
  /\ timers' = taskBegins(timers)

\* cb.onclick of the pills Top, Avail and Out: a third top player is refused.
TogglePill ==
  /\ Quiet
  /\ \E i \in DOMAIN players, key \in {"top", "available", "out"} :
       IF /\ key = "top"
          /\ ~players[i].top
          /\ Cardinality({j \in DOMAIN players : players[j].top}) >= 2
       THEN /\ status' = "max_top"
            /\ timers' = setStatusTimer(taskBegins(timers))
            /\ UNCHANGED <<players, schedule, pc>>
       ELSE /\ players' = [players EXCEPT ![i][key] = ~@]
            /\ RebuildOrRender(schedule, autoRebuild)
            /\ timers' = taskBegins(timers)
            /\ UNCHANGED status
  /\ ops' = ops + 1
  /\ UNCHANGED <<locked, currentPeriod, mode, topTwoCoverage, avoidStreaks,
                 autoRebuild, rng, k>>

\* Mutant of DeletePlayer: the lineups keep the id of the deleted player.
DeletePlayerKeepsLineups ==
  /\ Quiet
  /\ \E i \in DOMAIN players :
       /\ players' = SelectSeq(players, LAMBDA player : player.id # players[i].id)
       /\ RebuildOrRender(schedule, autoRebuild)
  /\ ops' = ops + 1
  /\ UNCHANGED <<locked, currentPeriod, mode, topTwoCoverage, avoidStreaks,
                 autoRebuild, status, rng, k>>
  /\ timers' = taskBegins(timers)

\* deleteBtn.onclick, confirmed: the player leaves the roster and every lineup.
DeletePlayer ==
  /\ Quiet
  /\ \E i \in DOMAIN players :
       /\ players' = SelectSeq(players, LAMBDA player : player.id # players[i].id)
       /\ RebuildOrRender([q \in DOMAIN schedule |->
                             SelectSeq(schedule[q], LAMBDA id : id # players[i].id)],
                          autoRebuild)
  /\ ops' = ops + 1
  /\ UNCHANGED <<locked, currentPeriod, mode, topTwoCoverage, avoidStreaks,
                 autoRebuild, status, rng, k>>
  /\ timers' = taskBegins(timers)

\* The roster after the row i was dragged to the place j.
Moved(s, i, j) ==
  LET rest == SubSeq(s, 1, i - 1) \o SubSeq(s, i + 1, Len(s))
  IN SubSeq(rest, 1, j - 1) \o <<s[i]>> \o SubSeq(rest, j, Len(rest))

\* onEnd of a drag: state.players = newOrder, the rows in their order on the page.
ReorderPlayers ==
  /\ Quiet
  /\ \E i, j \in DOMAIN players : i # j /\ players' = Moved(players, i, j)
  /\ ops' = ops + 1
  /\ UNCHANGED <<schedule, locked, currentPeriod, mode, topTwoCoverage, avoidStreaks,
                 autoRebuild, status, rng, pc, k>>
  /\ timers' = taskBegins(timers)

\* The generator after n calls of Math.random.
RECURSIVE Draws(_, _)
Draws(x, n) == IF n = 0 THEN x ELSE Draws(NextRand(x), n - 1)

\* uid(): ids no player and no lineup holds are the ones above FreshBase.
FreshBase ==
  MaxOf({0} \cup {players[i].id : i \in DOMAIN players}
            \cup UNION {Range(schedule[q]) : q \in DOMAIN schedule})

\* confirmImportBtn.onclick with n names: n new players at the end of the roster.
ImportPlayers ==
  /\ Quiet
  /\ \E n \in 1..MaxImport :
       /\ FreshBase + n \in PlayerIds
       /\ players' = players \o [i \in 1..n |-> [id |-> FreshBase + i,
                                                 top |-> FALSE,
                                                 available |-> TRUE,
                                                 out |-> FALSE]]
       /\ rng' = Draws(rng, n)
  /\ status' = "added"
  /\ ops' = ops + 1
  /\ UNCHANGED <<schedule, locked, currentPeriod, mode, topTwoCoverage, avoidStreaks,
                 autoRebuild, pc, k>>
  /\ timers' = setStatusTimer(taskBegins(timers))

\* Mutant of LockCurrent: the periods after currentPeriod are locked as well.
LockFromCurrent ==
  /\ Quiet
  /\ locked' = locked \cup (currentPeriod..PERIODS)
  /\ status' = "locked"
  /\ ops' = ops + 1
  /\ UNCHANGED <<players, schedule, currentPeriod, mode, topTwoCoverage, avoidStreaks,
                 autoRebuild, rng, pc, k>>
  /\ timers' = setStatusTimer(taskBegins(timers))

\* lockCurrentBtn.onclick.
LockCurrent ==
  /\ Quiet
  /\ locked' = locked \cup {currentPeriod}
  /\ status' = "locked"
  /\ ops' = ops + 1
  /\ UNCHANGED <<players, schedule, currentPeriod, mode, topTwoCoverage, avoidStreaks,
                 autoRebuild, rng, pc, k>>
  /\ timers' = setStatusTimer(taskBegins(timers))

\* unlockAllBtn.onclick.
UnlockAll ==
  /\ Quiet
  /\ locked' = {}
  /\ status' = "unlocked"
  /\ ops' = ops + 1
  /\ UNCHANGED <<players, schedule, currentPeriod, mode, topTwoCoverage, avoidStreaks,
                 autoRebuild, rng, pc, k>>
  /\ timers' = setStatusTimer(taskBegins(timers))

\* Mutant of ResetGame: the lock set is kept.
ResetGameKeepsLocks ==
  /\ Quiet
  /\ schedule' = <<>>
  /\ currentPeriod' = 1
  /\ status' = "reset"
  /\ ops' = ops + 1
  /\ UNCHANGED <<players, locked, mode, topTwoCoverage, avoidStreaks, autoRebuild, rng, pc, k>>
  /\ timers' = setStatusTimer(taskBegins(timers))

\* resetGameBtn.onclick, confirmed.
ResetGame ==
  /\ Quiet
  /\ schedule' = <<>>
  /\ locked' = {}
  /\ currentPeriod' = 1
  /\ status' = "reset"
  /\ ops' = ops + 1
  /\ UNCHANGED <<players, mode, topTwoCoverage, avoidStreaks, autoRebuild, rng, pc, k>>
  /\ timers' = setStatusTimer(taskBegins(timers))

NextOps ==
  \/ Next
  \/ RebuildClick
  \/ SetCurrentPeriod
  \/ SetMode
  \/ ToggleTopTwoCoverage
  \/ ToggleAvoidStreaks
  \/ ToggleAutoRebuild
  \/ RenamePlayer
  \/ TogglePill
  \/ DeletePlayer
  \/ ReorderPlayers
  \/ ImportPlayers
  \/ LockCurrent
  \/ UnlockAll
  \/ ResetGame

\* The page with five players, one or two of them top, the sliding-fixed
\* schedule of an earlier rebuild and two locked periods.
InitOps ==
  /\ \E tops \in {{ON_COURT + 1}, {1, 2}} : players = Roster(ON_COURT + 1, tops, 0)
  /\ schedule = [q \in Periods |-> [i \in 1..ON_COURT |-> rotationPatterns[5][q][i] + 1]]
  /\ currentPeriod = 1
  /\ locked = {3, 6}
  /\ mode = "sliding_fixed"
  /\ topTwoCoverage = TRUE
  /\ avoidStreaks = FALSE
  /\ autoRebuild \in BOOLEAN
  /\ status = ""
  /\ rng = 0
  /\ pc = "idle"
  /\ k = 0
  /\ ops = 0
  /\ timers = <<>>

SpecOps == InitOps /\ [][NextOps]_vars

\* The page with five players and nothing scheduled or locked yet.
InitFresh ==
  /\ \E tops \in {{ON_COURT + 1}, {1, 2}} : players = Roster(ON_COURT + 1, tops, 0)
  /\ schedule = <<>>
  /\ currentPeriod = 1
  /\ locked = {}
  /\ mode = "sliding_fixed"
  /\ topTwoCoverage = TRUE
  /\ avoidStreaks = FALSE
  /\ autoRebuild \in BOOLEAN
  /\ status = ""
  /\ rng = 0
  /\ pc = "idle"
  /\ k = 0
  /\ ops = 0
  /\ timers = <<>>

SpecFresh == InitFresh /\ [][NextOps]_vars

\* The callback of the oldest pending timer of setStatus: it runs between two
\* handlers and blanks the status line, whatever message is there.
TimerFires ==
  /\ pc \in {"idle", "done"}
  /\ timers # <<>>
  /\ status' = ""
  /\ timers' = Tail(timers)
  /\ UNCHANGED <<players, schedule, locked, currentPeriod, mode, topTwoCoverage,
                 avoidStreaks, autoRebuild, rng, pc, k, ops>>

NextTimers ==
  \/ NextOps
  \/ TimerFires

\* The page of SpecOps, followed for longer than the delay of the timers.
SpecTimers == InitOps /\ [][NextTimers]_vars

----------------------------------------------------------------------------
\* What the claims speak of.

\* The ids of the players who are available and not out.
ActiveIds == {players[i].id : i \in {j \in DOMAIN players : players[j].available /\ ~players[j].out}}
PoolSize == Len(getActivePool)
ActiveTops == {p \in Range(getActivePool) : p.top}
FinalCount(id) == getPlayedCounts(schedule, PERIODS + 1)[id]
ActiveCounts == {FinalCount(id) : id \in ActiveIds}
AllActive == PoolSize = Len(players)

\* The periods a rebuild regenerates, and those it has written so far: the
\* clearing loop has removed every other unlocked entry from Start on.
Regenerated == {q \in Start..PERIODS : q \notin locked}
Written == IF pc = "idle" THEN {} ELSE Regenerated \cap DOMAIN schedule

FullRebuildDone == pc = "done" /\ Start = 1 /\ locked = {}

Distinct(s) == \A i, j \in DOMAIN s : i # j => s[i] # s[j]

----------------------------------------------------------------------------
\* C1: no step of a rebuild, on the successful or the aborted path, creates,
\* removes or changes the schedule entry of a locked period.
C1_LockedPeriodsKept ==
  [][\A q \in locked :
       /\ (q \in DOMAIN schedule) <=> (q \in DOMAIN schedule')
       /\ q \in DOMAIN schedule => schedule'[q] = schedule[q]]_vars

\* A finished rebuild that regenerated a period while a locked period inside
\* its range kept a lineup.
C1_Witness ==
  /\ pc = "done"
  /\ PoolSize > ON_COURT
  /\ \E q \in locked : q >= Start /\ q \in DOMAIN schedule
  /\ Written # {}

\* C2 (as claimed): every lineup a rebuild writes has exactly ON_COURT
\* distinct player ids, whatever the mode, the cursor and the lock set.
C2_WrittenLineupsHaveFourDistinct ==
  \A q \in Written : Len(schedule[q]) = ON_COURT /\ Distinct(schedule[q])

\* C3: every lineup a rebuild writes contains only players of the active pool.
C3_WrittenLineupsAreActive ==
  \A q \in Written : Range(schedule[q]) \subseteq ActiveIds

\* A finished rebuild over a pool with an inactive player who was scheduled
\* before, from a cursor past period 1.
C3_Witness ==
  /\ pc = "done"
  /\ PoolSize > ON_COURT
  /\ ~AllActive
  /\ Start > 1
  /\ \E q \in 1..(Start - 1) : q \in DOMAIN schedule /\ ~(Range(schedule[q]) \subseteq ActiveIds)
  /\ Written # {}

C5_DivisibleGivesExactShare ==
  (FullRebuildDone /\ PoolSize > ON_COURT /\ (PERIODS * ON_COURT) % PoolSize = 0)
    => \A id \in ActiveIds : FinalCount(id) = (PERIODS * ON_COURT) \div PoolSize

\* A full sliding-adaptive rebuild over 8 active players with a top player.
C5_Witness ==
  /\ FullRebuildDone
  /\ PoolSize = 8
  /\ mode = "sliding_adaptive"
  /\ ActiveTops # {}

\* Scenario A: 8 players, all active, 2 of them top, fair_optimized with top
\* coverage on and streak avoidance off, no locks, cursor at period 1.
ScenarioA ==
  /\ Len(players) = 8
  /\ AllActive
  /\ Cardinality(ActiveTops) = 2
  /\ mode = "fair_optimized"
  /\ topTwoCoverage
  /\ ~avoidStreaks
  /\ Start = 1
  /\ locked = {}

ScenarioC ==
  /\ Len(players) = 5
  /\ AllActive
  /\ mode = "sliding_fixed"
  /\ Start = 1
  /\ locked = {}

\* C7: in scenario C every player ends with 6 or 7 periods, 32 in total.
C7_ScenarioCSixOrSeven ==
  (ScenarioC /\ pc = "done")
    => /\ \A id \in ActiveIds : FinalCount(id) \in {6, 7}
       /\ SumSeq([i \in 1..Len(players) |-> FinalCount(players[i].id)]) = PERIODS * ON_COURT

C7_Witness ==
  /\ ScenarioC
  /\ pc = "done"
  /\ ActiveCounts = {6, 7}

\* C8 (as claimed): with exactly ON_COURT active players, after a rebuild every
\* unlocked period that has a lineup has the active pool as its lineup.
C8_EveryUnlockedPeriodIsThePool ==
  (pc = "done" /\ PoolSize = ON_COURT)
    => \A q \in (DOMAIN schedule) \ locked : Range(schedule[q]) = ActiveIds

\* C8 (amended): ... every unlocked period from the cursor to the horizon is
\* scheduled with the ids of the active pool.
C8_RegeneratedPeriodsAreThePool ==
  (pc = "done" /\ PoolSize = ON_COURT)
    => \A q \in Regenerated : q \in DOMAIN schedule /\ schedule[q] = Ids(getActivePool)

\* A finished rebuild of a pool of ON_COURT from a cursor past period 1, with
\* an earlier unlocked period that holds other players.
C8_Witness ==
  /\ pc = "done"
  /\ PoolSize = ON_COURT
  /\ Start > 1
  /\ \E q \in (DOMAIN schedule) \ locked : q < Start /\ Range(schedule[q]) # ActiveIds

\* C9 (as claimed): with top coverage on and a top player active, every lineup
\* a rebuild writes holds a top player, unless it has no other member to swap.
C9_WrittenLineupsHoldATop ==
  (topTwoCoverage /\ ActiveTops # {})
    => \A q \in Written :
         \/ \E p \in ActiveTops : Includes(schedule[q], p.id)
         \/ \A i \in DOMAIN schedule[q] : \E p \in Range(players) : p.id = schedule[q][i] /\ p.top

----------------------------------------------------------------------------
\* The status a rebuild should leave: the diagnostic of the abort or of the
\* verifier (which runs only after a generation loop), else the success message.
ExpectedStatus ==
  IF PoolSize < ON_COURT THEN "need_players"
  ELSE IF PoolSize > ON_COURT THEN verifyFairness(schedule, "rebuilt")
  ELSE "rebuilt"

\* C11 (as claimed): when a rebuild has returned, the status is the
\* insufficient-players diagnostic after an abort, the fairness or top-coverage
\* diagnostic when the verifier flagged one, and the success message otherwise.
C11_StatusIsTheDiagnostic ==
  pc = "done" => status = ExpectedStatus

\* C12: in a rebuild with fewer than ON_COURT active players no step creates or
\* changes a lineup, the periods before the cursor and the locked periods keep
\* their entries, and once the clearing loop has run no unlocked period from
\* the cursor to the horizon is scheduled (the abort does not restore them).
C12_AbortGeneratesNothing ==
  [][PoolSize < ON_COURT =>
       /\ \A q \in DOMAIN schedule' : q \in DOMAIN schedule /\ schedule'[q] = schedule[q]
       /\ \A q \in DOMAIN schedule : (q < Start \/ q \in locked) => q \in DOMAIN schedule'
       /\ \A q \in Regenerated : q \notin DOMAIN schedule']_vars

\* An aborted rebuild from a cursor past period 1 that kept an earlier period
\* and a locked period and left an unlocked period of its range empty.
C12_Witness ==
  /\ pc = "done"
  /\ PoolSize < ON_COURT
  /\ \E q \in DOMAIN schedule : q < Start
  /\ \E q \in locked : q >= Start /\ q \in DOMAIN schedule
  /\ \E q \in Regenerated : q \notin DOMAIN schedule

\* C13: no step of a rebuild creates, changes or removes the schedule entry of
\* a period before the cursor, in any mode, aborted or not.
C13_EarlierPeriodsKept ==
  [][\A q \in 1..(Start - 1) :
       /\ (q \in DOMAIN schedule) <=> (q \in DOMAIN schedule')
       /\ q \in DOMAIN schedule => schedule'[q] = schedule[q]]_vars

\* A finished sliding-adaptive rebuild from a cursor past period 1, with an
\* unlocked earlier period that holds a lineup.
C13_Witness ==
  /\ pc = "done"
  /\ mode = "sliding_adaptive"
  /\ PoolSize > ON_COURT
  /\ \E q \in (DOMAIN schedule) \ locked : q < Start
  /\ Written # {}

----------------------------------------------------------------------------
\* The number of periods before upTo whose scheduled lineup contains id.
PeriodsPlayed(id, upTo) ==
  Cardinality({q \in 1..(upTo - 1) : q \in DOMAIN schedule /\ Includes(schedule[q], id)})

\* C14: for every upTo and every player id, getPlayedCounts(upTo) is the number
\* of periods k, 1 <= k < upTo, whose scheduled lineup contains the player; for
\* upTo = PERIODS + 1 that is the number of periods of the whole horizon.
C14_PlayedCountsArePeriodsPlayed ==
  \A upTo \in 1..(PERIODS + 1) :
    LET counts == getPlayedCounts(schedule, upTo)
    IN \A id \in PlayerIds : counts[id] = PeriodsPlayed(id, upTo)

\* A finished rebuild with an unscheduled period, where a player has played
\* before period 4 and again later.
C14_Witness ==
  /\ pc = "done"
  /\ \E q \in Periods : q \notin DOMAIN schedule
  /\ \E id \in ActiveIds :
       /\ getPlayedCounts(schedule, 4)[id] > 0
       /\ FinalCount(id) > getPlayedCounts(schedule, 4)[id]

\* The number of periods immediately before upTo, without a gap, whose
\* scheduled lineup contains id.
RunBefore(id, upTo) ==
  MaxOf({r \in 0..(upTo - 1) :
           \A q \in (upTo - r)..(upTo - 1) :
             q \in DOMAIN schedule /\ Includes(schedule[q], id)})

\* C15: for every upTo and every player of the roster, getStreakCounts(upTo) is
\* the length of the run of consecutive periods ending at upTo - 1 in which the
\* player is scheduled; an unscheduled period or one without the player ends it.
C15_StreakCountsAreRuns ==
  \A upTo \in 1..(PERIODS + 1) :
    LET streak == getStreakCounts(schedule, upTo)
    IN \A i \in DOMAIN players : streak[players[i].id] = RunBefore(players[i].id, upTo)

\* A finished rebuild with an unscheduled period q after a scheduled one: a
\* player in the lineup of q - 1 has a streak before q and none after it.
C15_Witness ==
  /\ pc = "done"
  /\ \E q \in 2..PERIODS :
       /\ q \notin DOMAIN schedule
       /\ q - 1 \in DOMAIN schedule
       /\ \E id \in ActiveIds :
            /\ getStreakCounts(schedule, q)[id] >= 2
            /\ getStreakCounts(schedule, q + 1)[id] = 0

----------------------------------------------------------------------------
\* C19: after a rebuild with at least ON_COURT active players every unlocked
\* period from the cursor to the horizon has a lineup with at least one member:
\* a period of that range without a lineup is a locked one.
C19_UnlockedPeriodsAreScheduled ==
  (pc = "done" /\ PoolSize >= ON_COURT)
    => \A q \in Start..PERIODS :
         \/ q \in DOMAIN schedule /\ Len(schedule[q]) > 0
         \/ q \in locked /\ q \notin DOMAIN schedule

\* A finished rebuild over more than ON_COURT players whose range holds a
\* locked period that had no lineup and still has none.
C19_Witness ==
  /\ pc = "done"
  /\ PoolSize > ON_COURT
  /\ \E q \in locked : q >= Start /\ q \notin DOMAIN schedule
  /\ Regenerated # {}
  /\ Regenerated \subseteq DOMAIN schedule

----------------------------------------------------------------------------
\* Schedule[1..q-1]: the entries of the periods before q.
Earlier(q) == [r \in (DOMAIN schedule) \cap (1..(q - 1)) |-> schedule[r]]

\* The entries before q without those of the locked periods.
EarlierUnlocked(q) == [r \in ((DOMAIN schedule) \cap (1..(q - 1))) \ locked |-> schedule[r]]

\* C18: the generation loop takes the periods in increasing order, one per
\* iteration, and writes at most the period it is at; the lineup stored for an
\* unlocked period k is the one the builder makes of Schedule[1..k-1] alone
\* (whatever the later, locked periods hold), and the tallies it reads count
\* the lineups of the locked periods before k.
C18_GenerationReadsEarlierPeriods ==
  [][(pc = "gen" /\ k <= PERIODS) =>
       /\ k' = k + 1
       /\ \A q \in Periods \ {k} :
            /\ (q \in DOMAIN schedule) <=> (q \in DOMAIN schedule')
            /\ q \in DOMAIN schedule => schedule'[q] = schedule[q]
       /\ k \notin locked =>
            LET g == GenerateOn(Earlier(k), k, k)
                played == getPlayedCounts(Earlier(k), k)
                unlockedPlayed == getPlayedCounts(EarlierUnlocked(k), k)
            IN /\ schedule'[k] = g.lineup
               /\ rng' = g.x
               /\ \A q \in locked \cap (DOMAIN schedule) \cap (1..(k - 1)) :
                    \A i \in DOMAIN schedule[q] :
                      played[schedule[q][i]] > unlockedPlayed[schedule[q][i]]]_vars

\* The loop stands at an unlocked period with a locked lineup before it that
\* changes the lineup chosen and a locked lineup after it.
C18_Witness ==
  /\ pc = "gen"
  /\ k <= PERIODS
  /\ k \notin locked
  /\ \E q \in locked \cap DOMAIN schedule : q > k
  /\ \E q \in locked \cap DOMAIN schedule : q < k
  /\ GenerateOn(EarlierUnlocked(k), k, k).lineup # Generate(k).lineup

----------------------------------------------------------------------------
\* rebuildFromCurrent has returned, after an abort that wrote nothing or after
\* a loop that went through every period of its range.
Aborted == pc = "done" /\ PoolSize < ON_COURT /\ Written = {}
Completed == pc = "done" /\ PoolSize >= ON_COURT /\ Regenerated \subseteq DOMAIN schedule

----------------------------------------------------------------------------
\* Mutant of enforceTopTwo: a lineup that holds a top player is swapped too.
enforceTopTwoSwapsAnyway(lineup, pool, playedCounts) ==
  LET tops == Ids(SelectSeq(pool, LAMBDA p : p.top))
      candidates == SelectSeq(lineup, LAMBDA id : ~Includes(tops, id))
      bestTop == tops[MinOf({i \in DOMAIN tops : \A j \in DOMAIN tops :
                               playedCounts[tops[i]] <= playedCounts[tops[j]]})]
      worstNonTop ==
        candidates[MinOf({i \in DOMAIN candidates : \A j \in DOMAIN candidates :
                            playedCounts[candidates[i]] >= playedCounts[candidates[j]]})]
  IN IF \/ ~topTwoCoverage
        \/ tops = <<>>
        \/ candidates = <<>>
     THEN lineup
     ELSE [i \in DOMAIN lineup |-> IF lineup[i] = worstNonTop THEN bestTop ELSE lineup[i]]

\* enforceTopTwo of the older revisions: when top coverage is on, the pool has
\* top players and the lineup holds none of them, the non-top member of the
\* lineup with the most periods played (the first of them in the lineup) is
\* replaced in place by the top player with the fewest (the first in the pool).
enforceTopTwo(lineup, pool, playedCounts) ==
  LET tops == Ids(SelectSeq(pool, LAMBDA p : p.top))
      candidates == SelectSeq(lineup, LAMBDA id : ~Includes(tops, id))
      bestTop == tops[MinOf({i \in DOMAIN tops : \A j \in DOMAIN tops :
                               playedCounts[tops[i]] <= playedCounts[tops[j]]})]
      worstNonTop ==
        candidates[MinOf({i \in DOMAIN candidates : \A j \in DOMAIN candidates :
                            playedCounts[candidates[i]] >= playedCounts[candidates[j]]})]
  IN IF \/ ~topTwoCoverage
        \/ \E i \in DOMAIN tops : Includes(lineup, tops[i])
        \/ tops = <<>>
        \/ candidates = <<>>
     THEN lineup
     ELSE [i \in DOMAIN lineup |-> IF lineup[i] = worstNonTop THEN bestTop ELSE lineup[i]]

\* C20 (as claimed): in every mode the lineup stored for a generated period is
\* enforceTopTwo applied to the builder's lineup for that period, with the
\* active pool and the played counts of that period.
C20_StoredLineupIsEnforced ==
  [][(pc = "gen" /\ k <= PERIODS /\ k \notin locked) =>
       schedule'[k] = enforceTopTwo(Generate(k).lineup, getActivePool,
                                    getPlayedCounts(schedule, k))]_vars

----------------------------------------------------------------------------
\* C16 (as claimed): a handler that is neither a rebuild nor the reset of the
\* game (locking, unlocking, moving the cursor, importing, renaming,
\* reordering or deleting players, changing a setting or a flag while
\* autoRebuild is off) leaves every scheduled lineup as it was.
C16_OnlyRebuildChangesLineups ==
  [][(pc \in {"idle", "done"} /\ pc' = pc /\ ~ResetGame) => schedule' = schedule]_vars

----------------------------------------------------------------------------
\* The older revision (lines 1005-1459): rebuildFromCurrent clears the same
\* way and always calls buildFairOptimized, whose loop takes a lineup of the
\* ON_COURT + 2 lowest-played players and passes it through enforceTopTwo.

OLD_TRIALS == 50
Infinity == 100000

\* One iteration of "for (let i = 0; i < 50; i++)" on bestLineup, minPenalty,
\* the generator, and whether the loop has left through its break.
oldTrialStep(st, candidates, streak) ==
  IF st.broke THEN st
  ELSE LET sh == shuffle(candidates, st.x)
           shuff == Slice(sh.a, ON_COURT)
           p == calculateStreakPenalty(shuff, streak)
       IN IF p < st.minPenalty
          THEN [lineup |-> shuff, minPenalty |-> p, x |-> sh.x, broke |-> p = 0]
          ELSE [st EXCEPT !.x = sh.x]

RECURSIVE oldTrialLoop(_, _, _, _)
oldTrialLoop(n, st, candidates, streak) ==
  IF n = 0 THEN st
  ELSE IF n = 1 THEN oldTrialStep(st, candidates, streak)
  ELSE LET half == oldTrialLoop(n \div 2, st, candidates, streak)
       IN IF half.broke THEN half
          ELSE oldTrialLoop(n - (n \div 2), half, candidates, streak)

\* The body of the older buildFairOptimized's loop up to the call of
\* enforceTopTwo: the sort compares the periods played, then Math.random().
oldBestLineup(pool, played, streak, x) ==
  LET s == sortFair(Ids(pool), played, {}, x)
      candidates == Slice(s.a, ON_COURT + 2)
      st == oldTrialLoop(OLD_TRIALS,
                         [lineup |-> Slice(candidates, ON_COURT), minPenalty |-> Infinity,
                          x |-> s.x, broke |-> FALSE],
                         candidates, streak)
  IN [lineup |-> st.lineup, x |-> st.x]

\* bestLineup before enforceTopTwo at the period the loop stands at.
OldBest == oldBestLineup(getActivePool, getPlayedCounts(schedule, k),
                         getStreakCounts(schedule, k), rng)

\* One iteration of the older loop: a locked period is skipped.
OldGenStep ==
  /\ pc = "gen"
  /\ k <= PERIODS
  /\ IF k \in locked
     THEN UNCHANGED <<schedule, rng>>
     ELSE LET g == OldBest
              bestLineup == enforceTopTwo(g.lineup, getActivePool,
                                          getPlayedCounts(schedule, k))
          IN /\ schedule' = [q \in (DOMAIN schedule) \cup {k} |->
                               IF q = k THEN bestLineup ELSE schedule[q]]
             /\ rng' = g.x
  /\ k' = k + 1
  /\ UNCHANGED <<autoRebuild, ops, players, locked, currentPeriod, mode, topTwoCoverage,
                 avoidStreaks, status, pc>>
  /\ UNCHANGED timers

\* The older builder returns after its loop.
OldLoopEnd ==
  /\ pc = "gen"
  /\ k > PERIODS
  /\ pc' = "finish"
  /\ UNCHANGED <<autoRebuild, ops, players, schedule, locked, currentPeriod, mode,
                 topTwoCoverage, avoidStreaks, status, rng, k>>
  /\ UNCHANGED timers

OldNext ==
  \/ RebuildClear
  \/ BuildAbort
  \/ BuildWholePool
  \/ BuildLoop
  \/ OldGenStep
  \/ OldLoopEnd
  \/ RebuildFinish

\* The older revision has the one builder, whatever the mode.
OldInit ==
  /\ Init
  /\ mode = "fair_optimized"
  /\ Len(getActivePool) <= MaxLivePool + 1

OldSpec == OldInit /\ [][OldNext]_vars

----------------------------------------------------------------------------
\* Full rebuilds of buildFairOptimized with streak avoidance and top coverage
\* on, from an empty schedule: the rebuilds in which the local search weighs
\* streaks against top players.
InitSearch ==
  /\ Init
  /\ mode = "fair_optimized"
  /\ avoidStreaks
  /\ topTwoCoverage
  /\ schedule = <<>>
  /\ locked = {}
  /\ currentPeriod = 1

SpecSearch == InitSearch /\ [][Next]_vars

----------------------------------------------------------------------------
\* Rebuilds in the two modes without a search, over rosters that include one
\* whose players are all inactive: the schedules verifyFairness is checked on.
InitVerify ==
  /\ \E n \in {MaxInactive, ON_COURT + 1, ON_COURT + 2}, d \in 0..MaxInactive :
       players = Roster(n, {}, d)
  /\ schedule \in PriorSchedules
  /\ \E c \in Cursors : currentPeriod = c.currentPeriod /\ locked = c.locked
  /\ mode \in {"sliding_fixed", "true_random_fair"}
  /\ topTwoCoverage \in BOOLEAN
  /\ avoidStreaks = FALSE
  /\ autoRebuild = FALSE
  /\ status = ""
  /\ rng = 0
  /\ pc = "idle"
  /\ k = 0
  /\ ops = 0
  /\ timers = <<>>

SpecVerify == InitVerify /\ [][Next]_vars

----------------------------------------------------------------------------
\* C21: enforceTopTwo returns the lineup it was given when top coverage is
\* off, when the active pool has no top player, or when the lineup already
\* holds a top player: the period gets bestLineup as the search left it.
C21_EnforcerReturnsLineup ==
  [][(/\ pc = "gen" /\ k <= PERIODS /\ k \notin locked
      /\ \/ ~topTwoCoverage
         \/ ActiveTops = {}
         \/ \E p \in ActiveTops : Includes(OldBest.lineup, p.id))
       => schedule'[k] = OldBest.lineup]_vars

\* The older loop stands, after a period it has written, at a period whose
\* bestLineup holds one of two active top players while top coverage is on.
C21_Witness ==
  /\ pc = "gen" /\ k <= PERIODS /\ k \notin locked
  /\ k - 1 \in Written
  /\ topTwoCoverage
  /\ Cardinality(ActiveTops) = 2
  /\ Cardinality({p \in ActiveTops : Includes(OldBest.lineup, p.id)}) = 1

----------------------------------------------------------------------------
\* The place of a player in the active pool.
PoolIndex(id) == CHOOSE i \in DOMAIN getActivePool : getActivePool[i].id = id

\* The first of the ids S in pool order.
FirstInPool(S) == CHOOSE id \in S : \A other \in S : PoolIndex(id) <= PoolIndex(other)

\* The swap as specified: the non-top member of the lineup with the most
\* periods played leaves, the active top player with the fewest comes in at
\* its position, ties going to the earlier player of the pool.
SpecifiedSwap(lineup, played) ==
  LET topIds == {p.id : p \in ActiveTops}
      nonTops == Range(lineup) \ topIds
      evicted == FirstInPool({id \in nonTops : \A o \in nonTops : played[id] >= played[o]})
      chosen == FirstInPool({id \in topIds : \A o \in topIds : played[id] <= played[o]})
  IN [i \in DOMAIN lineup |-> IF lineup[i] = evicted THEN chosen ELSE lineup[i]]

\* C22 (as claimed): when enforceTopTwo swaps (top coverage on, a top player
\* active, none in the lineup, a non-top member in it), the stored lineup is
\* the given one with its most-played non-top member, the earliest of the pool
\* among equals, replaced at its position by the least-played active top
\* player, the earliest of the pool among equals.
C22_SwapIsTheSpecifiedOne ==
  [][(/\ pc = "gen" /\ k <= PERIODS /\ k \notin locked
      /\ topTwoCoverage
      /\ ActiveTops # {}
      /\ ~\E p \in ActiveTops : Includes(OldBest.lineup, p.id))
       => schedule'[k] = SpecifiedSwap(OldBest.lineup, getPlayedCounts(schedule, k))]_vars

----------------------------------------------------------------------------
----------------------------------------------------------------------------
\* The streak penalty as specified: weight 10 per member at a streak of two
\* or more, weight 1 per member at a streak of one, nothing when streak
\* avoidance is off.
SpecifiedPenalty(lineup, streak) ==
  IF ~avoidStreaks THEN 0
  ELSE 10 * Cardinality({i \in DOMAIN lineup : StreakOf(streak, lineup[i]) >= 2})
       + Cardinality({i \in DOMAIN lineup : StreakOf(streak, lineup[i]) = 1})

\* C24 (as claimed): the streak penalty of the lineup buildFairOptimized
\* chooses for period k, against the streaks before k, is 10 for each member
\* with a streak of at least 2 plus 1 for each member with a streak of 1, and
\* 0 when avoidStreaks is off.
C24_PenaltyIsTenPerLongStreak ==
  (pc = "gen" /\ k <= PERIODS /\ k \notin locked /\ Builder = "fair_optimized") =>
    LET lineup == Generate(k).lineup
        streak == getStreakCounts(schedule, k)
    IN calculateStreakPenalty(lineup, streak) = SpecifiedPenalty(lineup, streak)

----------------------------------------------------------------------------
\* The local search of selectFairLineup at the period the loop stands at: the
\* lineup and the candidates it starts from, and the lineups it draws.
FairSorted ==
  sortFair(Ids(getActivePool), getPlayedCounts(schedule, k),
           Range(Ids(SelectSeq(getActivePool, LAMBDA p : p.top))), rng)

InitialLineup == Slice(FairSorted.a, ON_COURT)

TiedCandidates ==
  SelectSeq(FairSorted.a,
            LAMBDA id : getPlayedCounts(schedule, k)[id]
                          = MinOf({getPlayedCounts(schedule, k)[InitialLineup[i]] :
                                     i \in DOMAIN InitialLineup}))

SearchRuns ==
  /\ \A i, j \in DOMAIN InitialLineup :
       getPlayedCounts(schedule, k)[InitialLineup[i]]
         = getPlayedCounts(schedule, k)[InitialLineup[j]]
  /\ Len(TiedCandidates) > ON_COURT

\* The loop's variables before each of its TRIALS iterations.
SearchStates ==
  LET candidates == TiedCandidates
      pool == getActivePool
      streak == getStreakCounts(schedule, k)
      first == [lineup |-> InitialLineup,
                minScore |-> Score(InitialLineup, pool, streak),
                x |-> FairSorted.x, broke |-> FALSE]
  IN [i \in 1..TRIALS |-> trialLoop(i - 1, first, candidates, pool, streak)] \o <<>>

\* The lineups the loop draws: shuffle(candidates).slice(0, ON_COURT) in every
\* iteration it runs before its break.
Drawn ==
  LET states == SearchStates
      candidates == TiedCandidates
  IN {Slice(shuffle(candidates, states[i].x).a, ON_COURT) :
        i \in {j \in 1..TRIALS : ~states[j].broke}}

\* C25 (as claimed): selectFairLineup searches only when the candidates are
\* all tied on the periods played; otherwise it returns the ON_COURT
\* lowest-played players as sorted.  When it searches, the lineup it returns
\* has the lowest streak penalty among the initial lineup and the lineups
\* drawn, of which there are at most TRIALS.
C25_SearchMinimizesStreakPenalty ==
  (pc = "gen" /\ k <= PERIODS /\ k \notin locked /\ Builder = "fair_optimized") =>
    LET streak == getStreakCounts(schedule, k)
        result == Generate(k).lineup
        drawn == Drawn
    IN IF SearchRuns
       THEN /\ Cardinality(drawn) <= TRIALS
            /\ result \in drawn \cup {InitialLineup}
            /\ \A l \in drawn \cup {InitialLineup} :
                 calculateStreakPenalty(result, streak) <= calculateStreakPenalty(l, streak)
       ELSE result = InitialLineup

----------------------------------------------------------------------------
\* The active players with the fewest periods played, and those with the next
\* larger number an active player has.
LowestTier(played) ==
  {id \in ActiveIds : \A o \in ActiveIds : played[id] <= played[o]}

NextTierPresent(played) ==
  LET above == ActiveIds \ LowestTier(played)
  IN {id \in above : \A o \in above : played[id] <= played[o]}

\* C26 (as claimed): buildTrueRandomFair stores ON_COURT distinct players for
\* period k; all of them are of the lowest tier when that tier has at least
\* ON_COURT members, and otherwise the lineup holds the whole lowest tier and
\* fills up from the next-higher tier present in the pool.
C26_RandomFairDrawsFromTwoTiers ==
  [][(pc = "gen" /\ k <= PERIODS /\ k \notin locked /\ Builder = "true_random_fair") =>
       LET played == getPlayedCounts(schedule, k)
           low == LowestTier(played)
           chosen == Range(schedule'[k])
       IN /\ Len(schedule'[k]) = ON_COURT
          /\ Cardinality(chosen) = ON_COURT
          /\ IF Cardinality(low) >= ON_COURT
             THEN chosen \subseteq low
             ELSE low \subseteq chosen /\ chosen \ low \subseteq NextTierPresent(played)]_vars

----------------------------------------------------------------------------
\* The window as specified: ON_COURT players of the active pool in roster
\* order, contiguous and wrapping, from the 0-based index start.
Window(start) ==
  LET poolIds == Ids(getActivePool)
      n == Len(poolIds)
  IN [i \in 1..ON_COURT |-> poolIds[((start + i - 1) % n) + 1]]

\* C27 (as claimed): the lineup buildSlidingFixed stores for period k is the
\* window over the active pool that starts at index (k - 1) mod poolSize.
C27_WindowStartsAtPeriodOffset ==
  [][(pc = "gen" /\ k <= PERIODS /\ k \notin locked /\ Builder = "sliding_fixed") =>
       schedule'[k] = Window((k - 1) % PoolSize)]_vars

----------------------------------------------------------------------------
\* buildSlidingFixed as a function of the schedule and the generator it
\* starts with: the loop from period q on, for a pool of more than ON_COURT
\* players (pattern rows, or buildFairOptimized when the pool has no pattern).
RECURSIVE slidingFixedLoop(_, _, _)
slidingFixedLoop(sched, q, x) ==
  IF q > PERIODS THEN sched
  ELSE IF q \in locked THEN slidingFixedLoop(sched, q + 1, x)
  ELSE LET pool == getActivePool
           g == IF HasPattern(Len(pool))
                THEN [lineup |-> slidingFixedLineup(pool, q), x |-> x]
                ELSE selectFairLineup(pool, getPlayedCounts(sched, q),
                                      getStreakCounts(sched, q), x)
           next == [r \in (DOMAIN sched) \cup {q} |-> IF r = q THEN g.lineup ELSE sched[r]]
       IN IF next = <<>> THEN sched ELSE slidingFixedLoop(next, q + 1, g.x)

\* The schedule another sliding-fixed rebuild leaves, with the same roster,
\* lock set and cursor, when nothing was scheduled before and the generator
\* starts at 0.
OtherRebuild ==
  IF PoolSize = ON_COURT
  THEN [q \in Regenerated |-> Ids(getActivePool)]
  ELSE slidingFixedLoop(<<>>, Start, 0)

\* C28 (as claimed): in sliding_fixed mode, with ON_COURT active players or
\* more, the lineups a rebuild stores in the regenerated periods are those
\* any other rebuild with the same roster, lock set and cursor stores,
\* whatever was scheduled before and whatever is drawn.
C28_SlidingFixedIsDeterministic ==
  (pc = "done" /\ mode = "sliding_fixed" /\ PoolSize >= ON_COURT) =>
    LET other == OtherRebuild
    IN \A q \in Regenerated : q \in DOMAIN schedule /\ schedule[q] = other[q]

----------------------------------------------------------------------------
\* The period the rebuild generated last before period q, if any.
GeneratedBefore(q) == {r \in Regenerated : r < q}

\* C29 (as claimed): the lineup buildSlidingAdaptive stores for period k is
\* the next ON_COURT active players in roster order after the last pick of
\* the period generated before it in the same rebuild.
C29_AdaptivePointerWalksRoster ==
  [][(/\ pc = "gen" /\ k <= PERIODS /\ k \notin locked /\ Builder = "sliding_adaptive"
      /\ GeneratedBefore(k) # {})
       => LET previous == schedule[MaxOf(GeneratedBefore(k))]
          IN schedule'[k] = Window(PoolIndex(previous[Len(previous)]) % PoolSize)]_vars

----------------------------------------------------------------------------
\* The difference between the highest and the lowest number of periods the
\* active players have over the whole horizon.
CountSpread == MaxOf(ActiveCounts) - MinOf(ActiveCounts)

\* C30: when a builder calls verifyFairness after its loop, the fairness
\* status is set exactly when the counts of the active players over the whole
\* horizon differ by more than 1; with an empty active pool verifyFairness
\* sets no status, and no rebuild ends its builder with the fairness status.
C30_FairnessFlagIffSpreadOverOne ==
  /\ [][(pc = "gen" /\ k > PERIODS) =>
          ((status' = "fairness_issue") <=> (CountSpread > 1))]_vars
  /\ [](PoolSize = 0 =>
          /\ verifyFairness(schedule, status) = status
          /\ status # "fairness_issue")

\* A builder has called verifyFairness on a schedule whose counts differ by
\* more than 1, and the fairness status is set.
C30_Witness ==
  /\ pc = "finish"
  /\ PoolSize > ON_COURT
  /\ CountSpread > 1
  /\ status = "fairness_issue"

----------------------------------------------------------------------------
\* C31: when a builder calls verifyFairness and the counts of the active
\* players differ by at most 1, the top-priority status is set exactly when
\* the highest count is above the lowest, some active player is marked top and
\* some active top player has fewer periods than the highest count.
C31_TopFlagIffTopBelowMax ==
  [][(pc = "gen" /\ k > PERIODS /\ CountSpread <= 1) =>
      ((status' = "top_issue") <=>
         /\ MaxOf(ActiveCounts) > MinOf(ActiveCounts)
         /\ ActiveTops # {}
         /\ \E t \in ActiveTops : FinalCount(t.id) < MaxOf(ActiveCounts))]_vars

\* A builder has called verifyFairness on a schedule whose counts are one
\* apart with a top player on the lower count, and the top status is set.
C31_Witness ==
  /\ pc = "finish"
  /\ CountSpread = 1
  /\ \E t \in ActiveTops : FinalCount(t.id) < MaxOf(ActiveCounts)
  /\ status = "top_issue"

----------------------------------------------------------------------------
\* C32: the step in which a builder calls verifyFairness changes neither the
\* schedule, the lock set, the roster nor currentPeriod, and whatever it
\* flags, the rebuild then only sets its status and returns: no lineup is
\* generated again or corrected.
C32_VerifierOnlyObserves ==
  [][/\ (pc = "gen" /\ k > PERIODS) =>
          (pc' = "finish" /\ UNCHANGED <<schedule, locked, players, currentPeriod>>)
     /\ (pc = "finish") =>
          (pc' = "done" /\ UNCHANGED <<schedule, locked, players, currentPeriod>>)]_vars

\* A rebuild has returned with a schedule verifyFairness flagged.
C32_Witness ==
  /\ pc = "done"
  /\ PoolSize > ON_COURT
  /\ verifyFairness(schedule, "") # ""

----------------------------------------------------------------------------
\* C33 (as claimed): a rebuild over at least ON_COURT active players comes to
\* the end of its builder only through the call of verifyFairness, made after
\* the loop has passed the last period, in every mode.
C33_EveryBuilderVerifies ==
  [][(pc # "finish" /\ pc' = "finish" /\ PoolSize >= ON_COURT) =>
       (pc = "gen" /\ k > PERIODS /\ status' = verifyFairness(schedule, status))]_vars

----------------------------------------------------------------------------
\* C34: the handler of the reset-game button (the only one that sets the
\* status "Schedule reset.", so every step that brings this status is one of
\* its runs) leaves an empty schedule, an empty lock set and currentPeriod 1,
\* and changes neither the roster, the mode nor the settings.
C34_ResetGameClearsScheduleOnly ==
  [][(status # "reset" /\ status' = "reset") =>
       /\ schedule' = <<>>
       /\ locked' = {}
       /\ currentPeriod' = 1
       /\ UNCHANGED <<players, mode, topTwoCoverage, avoidStreaks, autoRebuild>>]_vars

\* The game was reset after another handler had run, and the roster is there.
C34_Witness ==
  /\ status = "reset"
  /\ ops = MaxOps
  /\ schedule = <<>>
  /\ locked = {}
  /\ currentPeriod = 1
  /\ players # <<>>

----------------------------------------------------------------------------
\* The ids of the players of the roster, and the ids some lineup holds.
RosterIds == {players[i].id : i \in DOMAIN players}
ScheduledIds == UNION {Range(schedule[q]) : q \in DOMAIN schedule}

\* C35: from a page with nothing scheduled, whatever handlers and rebuilds
\* run, every id in every lineup, locked or not, is the id of a player of the
\* roster; the step that takes a player out of the roster leaves no lineup
\* with the id of that player.
C35_LineupsHoldRosterIds ==
  /\ [](ScheduledIds \subseteq RosterIds)
  /\ [][\A id \in RosterIds :
          id \notin {players'[i].id : i \in DOMAIN players'} =>
            \A q \in DOMAIN schedule' : id \notin Range(schedule'[q])]_vars

\* A player who was in the lineups has been deleted: a lineup of a locked
\* period is one player short, and the roster has lost a player.
C35_Witness ==
  /\ Len(players) = ON_COURT
  /\ \E q \in locked : q \in DOMAIN schedule /\ Len(schedule[q]) = ON_COURT - 1
  /\ ScheduledIds # {}

----------------------------------------------------------------------------
\* The players of the roster marked top, active or not.
TopIds == {players[i].id : i \in {j \in DOMAIN players : players[j].top}}

\* C36: from a roster with at most two top players, whatever handlers run,
\* at most two players are marked top; the click that is refused (the one that
\* brings the status "Maximum 2 top players allowed") changes neither the
\* roster nor the schedule and starts no rebuild, autoRebuild on or off.
C36_AtMostTwoTopPlayers ==
  /\ [](Cardinality(TopIds) <= 2)
  /\ [][(status # "max_top" /\ status' = "max_top") =>
          (UNCHANGED <<players, schedule, locked, currentPeriod>> /\ pc' = pc)]_vars

\* With autoRebuild on and two top players, the only handler run so far was a
\* refused click on Top, and no rebuild has started.
C36_Witness ==
  /\ status = "max_top"
  /\ autoRebuild
  /\ ops = 1
  /\ pc = "idle"
  /\ Cardinality(TopIds) = 2

----------------------------------------------------------------------------
\* A step of cb.onclick that was accepted, or of deleteBtn.onclick: a flag of
\* one player changes, or the roster loses a player.
FlagOrDeleteStep ==
  /\ players' # players
  /\ \/ Len(players') < Len(players)
     \/ Ids(players') = Ids(players)

\* What a finished rebuild leaves in the unlocked periods from currentPeriod
\* on: nothing when fewer than ON_COURT players are active, else a lineup of
\* active players only.
RangeHoldsActiveLineups ==
  \A q \in Start..PERIODS :
     q \notin locked =>
       \/ q \notin DOMAIN schedule /\ PoolSize < ON_COURT
       \/ q \in DOMAIN schedule /\ schedule[q] # <<>> /\ Range(schedule[q]) \subseteq ActiveIds

\* C37: an accepted click on a pill and a deletion enter rebuildFromCurrent
\* in the same step when autoRebuild is on, and leave the unlocked periods
\* from currentPeriod on as described when that rebuild returns; with
\* autoRebuild off they start no rebuild.
C37_AutoRebuildAfterFlagOrDelete ==
  /\ [][FlagOrDeleteStep => (pc' = IF autoRebuild THEN "build" ELSE pc)]_vars
  /\ [][(pc = "finish" /\ pc' = "done") => RangeHoldsActiveLineups']_vars

\* With autoRebuild on, the only handler run marked a player inactive, and
\* the rebuild it started has returned with the four players left in period 1.
C37_Witness ==
  /\ pc = "done"
  /\ autoRebuild
  /\ ops = 1
  /\ Len(players) = ON_COURT + 1
  /\ PoolSize = ON_COURT
  /\ 1 \in DOMAIN schedule
  /\ Range(schedule[1]) = ActiveIds

----------------------------------------------------------------------------
\* buildSlidingAdaptive has run its own loop over every period: the mode is
\* sliding_adaptive, the pool has a pattern (5 to 8 players), the rebuild
\* starts at period 1 and nothing is locked; verifyFairness has been called.
AdaptiveFullRebuild ==
  /\ pc = "finish"
  /\ mode = "sliding_adaptive"
  /\ HasPattern(PoolSize)
  /\ Start = 1
  /\ locked = {}

\* C38: after such a rebuild every active top player has at least as many
\* periods as every active player who is not top, and verifyFairness has not
\* set the top-priority status.
C38_AdaptiveGivesTopPlayersMost ==
  AdaptiveFullRebuild =>
    /\ \A t \in ActiveTops : \A p \in Range(getActivePool) :
          ~p.top => FinalCount(t.id) >= FinalCount(p.id)
    /\ status # "top_issue"

\* Such a rebuild over counts one apart, in which the last player of the
\* roster is top and has the highest count.
C38_Witness ==
  /\ AdaptiveFullRebuild
  /\ CountSpread = 1
  /\ \E t \in ActiveTops :
        /\ t.id = players[Len(players)].id
        /\ FinalCount(t.id) = MaxOf(ActiveCounts)

----------------------------------------------------------------------------
\* C39: the handler of the lock button (the one that brings the status
\* "Period n locked.") adds currentPeriod and nothing else to the lock set,
\* the handler of the unlock button (status "All periods unlocked.") empties
\* it, and neither changes a lineup, the roster or currentPeriod; every
\* rebuild that starts afterwards deletes, for regeneration, each period from
\* its start on that is not locked then, the unlocked ones included.
C39_LockAndUnlockOnlyChangeLocks ==
  /\ [][(status # "locked" /\ status' = "locked") =>
          (locked' = locked \cup {currentPeriod}
             /\ UNCHANGED <<schedule, players, currentPeriod, pc>>)]_vars
  /\ [][(status # "unlocked" /\ status' = "unlocked") =>
          (locked' = {} /\ UNCHANGED <<schedule, players, currentPeriod, pc>>)]_vars
  /\ [][(pc # "build" /\ pc' = "build") =>
          \A q \in Start'..PERIODS : q \notin locked' => q \notin DOMAIN schedule']_vars

\* After unlock-all a rebuild has started and has deleted the lineup of a
\* period that held one and was locked before.
C39_Witness ==
  /\ status = "unlocked"
  /\ pc = "build"
  /\ locked = {}
  /\ \E q \in Periods : q >= Start /\ q \notin DOMAIN schedule

----------------------------------------------------------------------------
\* C40 (as claimed): when the timer of a setStatus call fires while the
\* status line shows the message of a call made in a later handler run, the
\* message stays.
C40_TimerLeavesLaterMessage ==
  [][(timers # <<>> /\ timers' = Tail(timers) /\ Head(timers) > timers[Len(timers)])
       => status' = status]_vars
====
